---- MODULE Spec2Model ----
(***************************************************************************)
(* The AAPP level-1 runner (bin/aapp_runner.py): the receive loop of       *)
(* aapp_rolling_runner, AappLvl1Processor.run with its job registry and    *)
(* its pending level-0 files, and the cooldown timers that release the     *)
(* registry again.                                                         *)
(*                                                                         *)
(* Times are integers (one unit is seven minutes); a time window is a pair  *)
(* <<start, end>> with start < end.  A python dict is a function whose      *)
(* DOMAIN is the set of keys present, a python list is a sequence, None     *)
(* for a time is NoTime.  A notification is a record whose fields are the   *)
(* keys of msg.data that are present (and type); the uri is held parsed.    *)
(***************************************************************************)
EXTENDS Integers, Sequences, FiniteSets, TLC

\* ------------------------------------------------------------------ bounds
\* Largest time value a notification carries.
MaxTime == 3
\* Largest number of subprocess launches in one behaviour.
MaxLaunches == 2
\* Longest interval list handed to overlapping_timeinterval on its own.
MaxLen == 3
\* Most lines the subprocess writes to its two output streams together.
MaxWrites == 5
\* The lines a pipe holds before a write to it blocks.
PipeCap == 1
\* Most write jobs the data processor puts on the queue of the writer.
MaxJobs == 3

\* ------------------------------------------------------- program constants
NoTime == -1

SERVERNAME == "safe.example"

SUPPORTED_NOAA_SATELLITES == {"NOAA-19", "NOAA-18", "NOAA-16", "NOAA-15"}

SUPPORTED_METOP_SATELLITES == {"Metop-B", "Metop-A", "Metop-C"}

\* SATELLITE_NAME.get(platform_name, 'unknown')
SATELLITE_NAME(p) ==
    CASE p = "NOAA-19" -> "noaa19"
      [] p = "NOAA-18" -> "noaa18"
      [] p = "NOAA-15" -> "noaa15"
      [] p = "Metop-A" -> "metop02"
      [] p = "Metop-B" -> "metop01"
      [] p = "Metop-C" -> "metop03"
      [] OTHER -> "unknown"

\* METOP_SENSOR.get(sensor, sensor)
METOP_SENSOR(s) ==
    CASE s = "amsu-a" -> "amsua"
      [] s = "avhrr/3" -> "avhrr"
      [] s = "amsu-b" -> "amsub"
      [] s = "hirs/4" -> "hirs"
      [] OTHER -> s

\* The accepted sensors with iasi among them.
AcceptedSensors_with_iasi == {"avhrr", "amsua", "amsub", "mhs", "hirs", "iasi"}

\* The sensors the aggregator accepts (run, the list tested before buffering).
AcceptedSensors == {"avhrr", "amsua", "amsub", "mhs", "hirs"}

\* The sensors the dispatch stage accepts (run, the list tested before launch).
DispatchSensors == {"avhrr", "amsua", "hirs", "mhs"}

\* The number of buffered files below which run waits for more.
MinSensorFiles == 4

\* timedelta(seconds=60 * 14), the pass length guessed when end_time is missing.
FOURTEEN_MINUTES == 2

\* self.orbit is an int read from the notification, None, or the string
\* initialise() puts there.
IntOrbit(n) == [kind |-> "int", val |-> n]

NoOrbit == [kind |-> "None"]

InitialOrbit == [kind |-> "str", val |-> "00000"]

\* move_lvl1dir: the orbit taken from the name of the level-1 sub-directory.
SubdirOrbit == [kind |-> "str", val |-> "from subdir"]

\* aapplvl1_proc.returncode before the subprocess has been waited for.
NoCode == -1

\* The exit statuses of the subprocess: success and failure.
ExitCodes == {0, 1}

\* ------------------------------------------------------------ notifications
Times == 0 .. MaxTime

Windows == {w \in Times \X Times : w[1] < w[2]}

\* A path is <<directory, file name>>; os.path.basename takes the file name.
basename(path) == path[2]

\* recv(timeout) yields None when nothing arrived in time.
NoMsg == [type |-> "None"]

\* A notification with every field; orbit_number is already an int.
FileMsg(p, sensor, host, path, w) ==
    [type |-> "file", platform_name |-> p, sensor |-> sensor,
     uri |-> [netloc |-> host, path |-> path],
     start_time |-> w[1], end_time |-> w[2], orbit_number |-> 12345]

\* The notification without one of its fields.
Without(m, field) == [f \in DOMAIN m \ {field} |-> m[f]]

\* Notifications that run leaves before it reads the scene.
SkipFeed ==
    {NoMsg,
     [FileMsg("NOAA-19", "avhrr/3", SERVERNAME, <<"hrpt", "n19.hmf">>, <<0, 1>>)
         EXCEPT !.type = "collection"],
     Without(FileMsg("NOAA-19", "avhrr/3", SERVERNAME, <<"hrpt", "n19.hmf">>,
                     <<0, 1>>), "platform_name"),
     FileMsg("Terra", "modis", SERVERNAME, <<"eos", "t.pds">>, <<0, 1>>),
     FileMsg("NOAA-19", "avhrr/3", "other.example", <<"hrpt", "n19.hmf">>, <<0, 1>>)}

NoaaFeed ==
    {FileMsg("NOAA-19", "avhrr/3", SERVERNAME, <<"hrpt", "n19.hmf">>, w) :
        w \in Windows}

\* The window of the Metop pass, and a window that overlaps it.
MetopWindow == <<0, 2>>

MetopLater == <<1, 3>>

MetopMsg(sensor, file, w) ==
    FileMsg("Metop-B", sensor, SERVERNAME, <<"eps", file>>, w)

\* The four level-0 files the Metop script takes, one per sensor.
MetopPass ==
    {MetopMsg("avhrr/3", "AVHR_1", MetopWindow),
     MetopMsg("amsu-a", "AMSA_1", MetopWindow),
     MetopMsg("mhs", "MHSx_1", MetopWindow),
     MetopMsg("hirs/4", "HIRS_1", MetopWindow)}

\* What the subscribed topics deliver in one behaviour is one of these feeds.
\* Every NOAA-19 window, a Metop file that waits, and receive timeouts:
FeedNoaa ==
    NoaaFeed \cup {MetopMsg("avhrr/3", "AVHR_1", MetopWindow), NoMsg}

\* The notifications that are filtered out, around two NOAA-19 passes:
FeedSkip ==
    SkipFeed
    \cup {FileMsg("NOAA-19", "avhrr/3", SERVERNAME, <<"hrpt", "n19.hmf">>, w) :
              w \in {<<0, 1>>, <<0, 2>>}}

\* A Metop pass with a second avhrr file, a sensor that is not wanted, a file
\* of a later window that overlaps, a NOAA-19 pass, and receive timeouts:
FeedMetop ==
    MetopPass
    \cup {MetopMsg("avhrr/3", "AVHR_2", MetopWindow),
          MetopMsg("iasi", "IASI_1", MetopWindow),
          MetopMsg("avhrr/3", "AVHR_3", MetopLater),
          FileMsg("NOAA-19", "avhrr/3", SERVERNAME, <<"hrpt", "n19.hmf">>, <<0, 1>>),
          NoMsg}

\* A Metop pass with an amsu-b file besides, and receive timeouts:
FeedAmsub ==
    MetopPass
    \cup {MetopMsg("amsu-b", "AMSB_1", MetopWindow),
          MetopMsg("avhrr/3", "AVHR_3", MetopLater),
          NoMsg}

\* A NOAA-19 file announced without its uri, its sensor or its start_time,
\* besides the complete notification:
FeedMalformed ==
    {Without(FileMsg("NOAA-19", "avhrr/3", SERVERNAME, <<"hrpt", "n19.hmf">>,
                     <<0, 1>>), field) : field \in {"uri", "sensor", "start_time"}}
    \cup {FileMsg("NOAA-19", "avhrr/3", SERVERNAME, <<"hrpt", "n19.hmf">>, <<0, 1>>),
          NoMsg}

\* NOAA-19 passes announced without end_time or without orbit_number,
\* besides a complete notification:
FeedNoEnd ==
    {Without(FileMsg("NOAA-19", "avhrr/3", SERVERNAME, <<"hrpt", "n19.hmf">>,
                     <<t, t + 1>>), "end_time") : t \in {0, 1, 2}}
    \cup {Without(FileMsg("NOAA-19", "avhrr/3", SERVERNAME, <<"hrpt", "n19.hmf">>,
                          <<0, 2>>), "orbit_number"),
          FileMsg("NOAA-19", "avhrr/3", SERVERNAME, <<"hrpt", "n19.hmf">>, <<0, 2>>),
          NoMsg}

\* The Metop pass with its hirs file announced with and without orbit_number:
FeedNoOrbit ==
    MetopPass
    \cup {Without(MetopMsg("hirs/4", "HIRS_1", MetopWindow), "orbit_number"),
          NoMsg}

Feeds ==
    {FeedNoaa, FeedSkip, FeedMetop, FeedAmsub, FeedMalformed, FeedNoEnd,
     FeedNoOrbit}

\* -------------------------------------------------------------------- state
VARIABLES
    job_register,   \* self.job_register: identity -> list of locked windows
    level0files,    \* self.level0files: scene key -> list of <<path, sensor>>
    starttime,      \* self.starttime
    endtime,        \* self.endtime
    satid,          \* self.satid
    satellite,      \* self.satellite
    platform,       \* self.platform
    orbit,          \* self.orbit
    result_files,   \* self.result_files
    timers,         \* the started threading.Timer objects that have not fired
    released,       \* the <<identity, window>> pairs cooldown callbacks removed
    working_dir,    \* the working directory of the processor, NoDir for None
    workdirs,       \* the working directories that exist on the disk
    ndirs,          \* the number of directories tempfile.mkdtemp has made
    dispatch_dirs,  \* the working directory of every Popen call, in order
    ninit,          \* the number of initialise() calls the loop has made after a pass
    nlaunch,        \* the number of Popen calls made
    launched,       \* the command line of the latest Popen call
    nrunning,       \* the number of subprocesses that have not exited
    returncode,     \* the exit status the latest run call found
    to_send,        \* publish_level1: the messages it sends for the pass
    outcome,        \* the place where the latest run call ended
    pc,             \* the position of aapp_rolling_runner
    msg,            \* the notification recv handed to the loop last
    feed,           \* the notifications the subscribed topics deliver
    ot_args,        \* overlapping_timeinterval taken alone: its arguments
    ot_result,      \* overlapping_timeinterval taken alone: <<its result>>
    rj_args,        \* reset_job_registry taken alone: its arguments
    rj_result,      \* reset_job_registry taken alone: <<its result>>
    script,         \* the output drain: the writes the subprocess makes in all
    child,          \* the output drain: the writes the subprocess has yet to make
    pipes,          \* the output drain: the lines held in each pipe
    lpc,            \* the output drain: the position of run
    rl_args,        \* the relocation taken alone: platform, output root, files
    rl_result,      \* the relocation taken alone: <<the output root after it>>
    sc_register,    \* the registry scan with a timer: the job registry
    sc_cand,        \* the registry scan with a timer: the window of the scene
    sc_idx,         \* the registry scan with a timer: the items the for loop has taken
    sc_pc,          \* the registry scan with a timer: the position of the scan
    sc_timer,       \* the registry scan with a timer: <<the window of the timer>>
    dw_queue,       \* DataWriter.prod_queue: the jobs put and not yet taken
    dw_unfinished,  \* DataWriter.prod_queue.unfinished_tasks
    dw_loop,        \* DataWriter._loop
    dw_pc,          \* the position of the writer thread in DataWriter.run
    dw_job,         \* the job the writer thread has taken, 0 for none
    dw_done,        \* the jobs whose function has returned, in that order
    dp_pc,          \* the position of the main thread in DataProcessor.run
    dp_queued,      \* the jobs this call of DataProcessor.run has put
    dp_njobs,       \* the jobs put since the start
    td_loop         \* Trollduction._loop

\* The fields of the processor that run reads from the notification.
scenevars == <<starttime, endtime, satid, satellite, platform, orbit>>

\* The working directory of the processor and the directories on the disk.
dirvars == <<working_dir, workdirs, ndirs, dispatch_dirs>>

procvars == <<job_register, level0files, scenevars, result_files, timers,
              released, dirvars, ninit, nlaunch, launched, nrunning, returncode,
              to_send, outcome, pc, msg, feed>>

\* The variables of the functions and of the output drain taken alone.
relocvars == <<rl_args, rl_result>>

scanvars == <<sc_register, sc_cand, sc_idx, sc_pc, sc_timer>>

\* The writer thread, its queue and the data processor that feeds it.
writervars == <<dw_queue, dw_unfinished, dw_loop, dw_pc, dw_job, dw_done,
                dp_pc, dp_queued, dp_njobs, td_loop>>

sidevars == <<ot_args, ot_result, rj_args, rj_result, script, child, pipes, lpc,
              relocvars, scanvars, writervars>>

vars == <<procvars, sidevars>>

\* ----------------------------------------------------------------- helpers
Range(s) == {s[i] : i \in 1 .. Len(s)}

\* list.remove(x) for an x that is in the list: the first equal item goes.
RemoveFirst(s, x) ==
    LET i == CHOOSE k \in 1 .. Len(s) :
                 s[k] = x /\ \A j \in 1 .. (k - 1) : s[j] # x
    IN  SubSeq(s, 1, i - 1) \o SubSeq(s, i + 1, Len(s))

RemoveAt(s, i) == SubSeq(s, 1, i - 1) \o SubSeq(s, i + 1, Len(s))

\* dict.get(key, [])
ListOf(dict, key) == IF key \in DOMAIN dict THEN dict[key] ELSE <<>>

\* An append that puts the item into the list twice.
AppendTo_twice(dict, key, item) ==
    IF key \in DOMAIN dict
    THEN [dict EXCEPT ![key] = Append(Append(@, item), item)]
    ELSE (key :> <<item, item>>) @@ dict

\* if key not in dict: dict[key] = []; dict[key].append(item)
AppendTo(dict, key, item) ==
    IF key \in DOMAIN dict
    THEN [dict EXCEPT ![key] = Append(@, item)]
    ELSE (key :> <<item>>) @@ dict

\* ------------------------------------------------- overlapping_timeinterval
\* The python False the function returns when no interval matches.
NoMatch == <<>>

\* overlapping_timeinterval with the comparisons made non-strict.
RECURSIVE overlapping_timeinterval_closed(_, _)
overlapping_timeinterval_closed(start_end_times, timelist) ==
    IF timelist = <<>>
    THEN NoMatch
    ELSE LET tstart == Head(timelist)[1]
             tend == Head(timelist)[2]
         IN  IF \/ (start_end_times[1] >= tstart /\ start_end_times[1] <= tend)
                \/ (start_end_times[2] >= tstart /\ start_end_times[2] <= tend)
             THEN <<tstart, tend>>
             ELSE overlapping_timeinterval_closed(start_end_times, Tail(timelist))

RECURSIVE overlapping_timeinterval(_, _)
overlapping_timeinterval(start_end_times, timelist) ==
    IF timelist = <<>>
    THEN NoMatch
    ELSE LET tstart == Head(timelist)[1]
             tend == Head(timelist)[2]
         IN  IF \/ (start_end_times[1] > tstart /\ start_end_times[1] < tend)
                \/ (start_end_times[2] > tstart /\ start_end_times[2] < tend)
             THEN <<tstart, tend>>
             ELSE overlapping_timeinterval(start_end_times, Tail(timelist))

\* ------------------------------------------------------- reset_job_registry
\* The registry after the call.  list.remove raises ValueError when the
\* window is not in a non-empty list: the timer thread ends and the registry
\* stays as it was.
reset_job_registry(objdict, key, start_end_times) ==
    IF key \in DOMAIN objdict /\ Len(objdict[key]) > 0
    THEN IF start_end_times \in Range(objdict[key])
         THEN [objdict EXCEPT ![key] = RemoveFirst(@, start_end_times)]
         ELSE objdict
    ELSE objdict

\* Whether list.remove raises ValueError in the call.
reset_raises(objdict, key, start_end_times) ==
    /\ key \in DOMAIN objdict
    /\ Len(objdict[key]) > 0
    /\ start_end_times \notin Range(objdict[key])

\* Whether the call ends at the warning that nothing was there to release.
reset_warns(objdict, key, start_end_times) ==
    ~(key \in DOMAIN objdict /\ Len(objdict[key]) > 0)

\* Whether the call removed an interval.
reset_removes(objdict, key, start_end_times) ==
    /\ key \in DOMAIN objdict
    /\ start_end_times \in Range(objdict[key])

\* ------------------------------------------------------- AappLvl1Processor
\* One key of the job registry for all identities.
registry_key_shared(sid) == "all"

\* The key of the job registry: str(self.satid).
registry_key(sid) == sid

\* One pending list for an identity, whatever the window.
scene_key_without_window(sid, st, et) == <<sid, NoTime, NoTime>>

\* The key of the pending level-0 files: satid + '_' + start + '_' + end.
scene_key(sid, st, et) == <<sid, st, et>>

\* A registry test that finds no locked interval.
registry_status_unlocked(register, sid, st, et) == NoMatch

\* run, the registry test: the locked interval that stops this scene, if any.
registry_status(register, sid, st, et) ==
    IF registry_key(sid) \in DOMAIN register
       /\ Len(register[registry_key(sid)]) > 0
    THEN overlapping_timeinterval(<<st, et>>, register[registry_key(sid)])
    ELSE NoMatch

\* buffer_item without the test that the item is not yet in the list.
buffer_item_always(files, keyname, item) ==
    LET withkey == IF keyname \in DOMAIN files
                   THEN files
                   ELSE (keyname :> <<>>) @@ files
    IN  [withkey EXCEPT ![keyname] = Append(@, item)]

\* run, the aggregator: the pending files once item has been offered.
buffer_item(files, keyname, item) ==
    LET withkey == IF keyname \in DOMAIN files
                   THEN files
                   ELSE (keyname :> <<>>) @@ files
    IN  IF item \in Range(withkey[keyname])
        THEN withkey
        ELSE [withkey EXCEPT ![keyname] = Append(@, item)]

\* run, the gate: too few files buffered for the scene.
not_enough(filelist) == Len(filelist) < MinSensorFiles

\* sensor_filename with the files bound to the sensors by their place in the
\* list instead of by their sensor.
sensor_filename_by_position(filelist) ==
    [instr \in {"avhrr", "amsua", "mhs", "hirs"} |->
        basename(filelist[CASE instr = "avhrr" -> 1
                            [] instr = "amsua" -> 2
                            [] instr = "mhs" -> 3
                            [] OTHER -> 4][1])]

\* run, the dispatch stage: sensor_filename[instr] = basename(fname), in list
\* order, so that a later file of a sensor replaces an earlier one.
RECURSIVE sensor_filename(_)
sensor_filename(filelist) ==
    IF filelist = <<>>
    THEN <<>>
    ELSE LET last == filelist[Len(filelist)]
         IN  (last[2] :> basename(last[1]))
                 @@ sensor_filename(SubSeq(filelist, 1, Len(filelist) - 1))

\* run, the dispatch stage: a buffered sensor the Metop script has no flag for.
sensor_mismatch(names) == \E instr \in DOMAIN names : instr \notin DispatchSensors

\* The Metop command line: -a avhrr -u amsua -m mhs -h hirs.
metop_cmd(names) ==
    [script |-> "METOP_RUN_SCRIPT",
     files |-> [a |-> names["avhrr"], u |-> names["amsua"],
                m |-> names["mhs"], h |-> names["hirs"]]]

\* The NOAA command line: the level-0 file.
noaa_cmd(level0_filename) ==
    [script |-> "NOAA_RUN_SCRIPT", files |-> [input |-> level0_filename]]

\* end_time_of without the fourteen minutes added to the start.
end_time_of_unguessed(m) ==
    IF "end_time" \in DOMAIN m
    THEN m.end_time
    ELSE m.start_time

\* msg.data['end_time'], or the guess run makes when the field is missing.
end_time_of(m) ==
    IF "end_time" \in DOMAIN m
    THEN m.end_time
    ELSE m.start_time + FOURTEEN_MINUTES

\* int(msg.data['orbit_number']), or None when the field is missing.
orbit_of(m) ==
    IF "orbit_number" \in DOMAIN m THEN IntOrbit(m.orbit_number) ELSE NoOrbit

\* self.working_dir is None.
NoDir == 0

\* A working directory is made for every run call that comes this far.
need_working_dir_always(wd) == TRUE

\* if not self.working_dir: a working directory is made only when the
\* processor has none.
need_working_dir(wd) == wd = NoDir

\* tempfile.mkdtemp makes a directory that was never there before, when the
\* processor has no working directory.
make_working_dir ==
    IF need_working_dir(working_dir)
    THEN /\ ndirs' = ndirs + 1
         /\ working_dir' = ndirs + 1
         /\ workdirs' = workdirs \cup {ndirs + 1}
    ELSE UNCHANGED <<working_dir, workdirs, ndirs>>

\* A return of run that leaves the processor as it was.
ReturnEarly(where) ==
    /\ outcome' = where
    /\ UNCHANGED <<job_register, level0files, scenevars, dirvars, nlaunch,
                   launched, nrunning, pc>>

\* A KeyError on a field of the notification: nothing catches it and the main
\* thread ends.
Raise(where) ==
    /\ outcome' = where
    /\ pc' = "crashed"
    /\ UNCHANGED <<job_register, level0files, scenevars, dirvars, nlaunch,
                   launched, nrunning>>

\* The lock is added and the subprocess is launched with Popen; run goes on
\* to read its output and to wait for it.
Dispatch(register, cmd) ==
    /\ nlaunch < MaxLaunches
    /\ make_working_dir
    /\ dispatch_dirs' = Append(dispatch_dirs, working_dir')
    /\ job_register' = register
    /\ nlaunch' = nlaunch + 1
    /\ launched' = cmd
    /\ nrunning' = nrunning + 1
    /\ outcome' = "running"
    /\ pc' = "communicate"

\* run, from its start to a return, an exception or the Popen call.
run(m) ==
    /\ pc = "recv"
    /\ msg' = m
    /\ returncode' = NoCode
    /\ IF m = NoMsg \/ m.type # "file"
       THEN ReturnEarly("no file")
       ELSE IF "platform_name" \notin DOMAIN m
       THEN ReturnEarly("platform")
       ELSE IF m.platform_name \notin SUPPORTED_NOAA_SATELLITES
               /\ m.platform_name \notin SUPPORTED_METOP_SATELLITES
       THEN ReturnEarly("platform")
       ELSE IF "uri" \notin DOMAIN m
       THEN Raise("KeyError uri")
       ELSE IF m.uri.netloc # SERVERNAME
       THEN ReturnEarly("server")
       ELSE IF "sensor" \notin DOMAIN m
       THEN Raise("KeyError sensor")
       ELSE IF "start_time" \notin DOMAIN m
       THEN Raise("KeyError start_time")
       ELSE
         LET st == m.start_time
             et == end_time_of(m)
             sid == SATELLITE_NAME(m.platform_name)
             plat == IF m.platform_name \in SUPPORTED_METOP_SATELLITES
                     THEN "metop" ELSE "noaa"
             status == registry_status(job_register, sid, st, et)
             keyname == scene_key(sid, st, et)
             sensor == METOP_SENSOR(m.sensor)
             files == buffer_item(level0files, keyname, <<m.uri.path, sensor>>)
             locked == AppendTo(job_register, registry_key(sid), <<st, et>>)
         IN
         /\ starttime' = st
         /\ endtime' = et
         /\ orbit' = orbit_of(m)
         /\ satellite' = m.platform_name
         /\ satid' = sid
         /\ platform' = plat
         /\ IF status # NoMatch
            THEN /\ outcome' = "overlap"
                 /\ UNCHANGED <<job_register, level0files, dirvars, nlaunch,
                                launched, nrunning, pc>>
            ELSE IF plat = "metop" /\ sensor \notin AcceptedSensors
            THEN /\ outcome' = "sensor"
                 /\ UNCHANGED <<job_register, level0files, dirvars, nlaunch,
                                launched, nrunning, pc>>
            ELSE IF plat = "metop" /\ not_enough(files[keyname])
            THEN /\ outcome' = "wait"
                 /\ level0files' = files
                 /\ UNCHANGED <<job_register, dirvars, nlaunch, launched,
                                nrunning, pc>>
            ELSE IF plat = "metop" /\ sensor_mismatch(sensor_filename(files[keyname]))
            THEN /\ outcome' = "mismatch"
                 /\ level0files' = files
                 /\ make_working_dir
                 /\ UNCHANGED <<job_register, dispatch_dirs, nlaunch, launched,
                                nrunning, pc>>
            ELSE IF plat = "metop"
                    /\ DispatchSensors \ DOMAIN sensor_filename(files[keyname]) # {}
            THEN \* sensor_filename[...] raises KeyError after the lock was added;
                 \* nothing catches it and the main thread ends.
                 /\ outcome' = "KeyError"
                 /\ level0files' = files
                 /\ job_register' = locked
                 /\ pc' = "crashed"
                 /\ make_working_dir
                 /\ UNCHANGED <<dispatch_dirs, nlaunch, launched, nrunning>>
            ELSE IF plat = "metop"
            THEN /\ level0files' = files
                 /\ Dispatch(locked, metop_cmd(sensor_filename(files[keyname])))
            ELSE /\ UNCHANGED level0files
                 /\ Dispatch(locked, noaa_cmd(m.uri.path))
    /\ UNCHANGED <<result_files, timers, released, ninit, to_send, feed, sidevars>>

\* Popen.communicate() returning at once, whether the subprocess runs or not.
communicate_returns_at_once == TRUE

\* Popen.communicate() returns when the subprocess has exited.
communicate_returns == nrunning = 0

\* The subprocess exits with some status.
SubprocessExit ==
    /\ nrunning > 0
    /\ nrunning' = nrunning - 1
    /\ \E status \in ExitCodes : returncode' = status
    /\ UNCHANGED <<job_register, level0files, scenevars, result_files, timers,
                   released, dirvars, ninit, nlaunch, launched, to_send, outcome,
                   pc, msg, feed, sidevars>>

\* The first part of the name of a file in a NOAA sub-directory, up to its
\* first underscore, as the sequence of its characters: 'hrpt', 'amsual1b',
\* and 'log' of a file that is no level-1 file.
hrpt == <<"h", "r", "p", "t">>

amsual1b == <<"a", "m", "s", "u", "a", "l", "1", "b">>

log == <<"l", "o", "g">>

\* What get_aapp_lvl1_files may find in the working directory, as paths
\* <<directory, file name>>.  A Metop file name is <<in_name, ext>>, the two
\* parts about its dot, and lies in the working directory itself; a NOAA file
\* name is <<mstr, rest>>, the parts about its first underscore, and lies in
\* the sub-directory that the script has made.
ResultLists(platform_name) ==
    IF platform_name \in SUPPORTED_METOP_SATELLITES
    THEN {<<>>,
          << <<"wd", <<"hrpt", "l1b">> >> >>,
          << <<"wd", <<"hrpt", "l1b">> >>, <<"wd", <<"dcsn", "l1b">> >> >>,
          << <<"wd", <<"avhr", "l1b">> >> >>}
    ELSE {<<>>, << <<"subdir", <<hrpt, "new.l1b">> >> >>}

\* A timer that is given the satellite name of the notification as its key.
cooldown_timer_by_name(sid, st, et, sat) ==
    [key |-> sat, times |-> <<st, et>>]

\* threading.Timer(10 * 60.0, reset_job_registry, args=(self.job_register,
\* str(self.satid), (self.starttime, self.endtime))): the arguments the timer
\* calls reset_job_registry with.
cooldown_timer(sid, st, et, sat) ==
    [key |-> registry_key(sid), times |-> <<st, et>>]

\* run after the output has been read: the exit status is looked at only to
\* be dropped, the cooldown timer is started, the level-1 files are listed
\* and run returns False, which breaks the loop.
RunReturns ==
    /\ pc = "communicate"
    /\ communicate_returns
    /\ timers' = Append(timers, cooldown_timer(satid, starttime, endtime, satellite))
    /\ \E found \in ResultLists(msg.platform_name) : result_files' = found
    /\ outcome' = "dispatched"
    /\ pc' = "harvest"
    /\ UNCHANGED <<job_register, level0files, scenevars, released, dirvars,
                   ninit, nlaunch, launched, nrunning, returncode, to_send, msg,
                   feed, sidevars>>

\* initialise() leaving the pending files as they are.
initialise_keeps_pending ==
    /\ ninit' = ninit + 1
    /\ working_dir' = NoDir
    /\ starttime' = NoTime
    /\ endtime' = NoTime
    /\ satid' = "Unknown"
    /\ satellite' = "Unknown"
    /\ platform' = "Unknown"
    /\ orbit' = InitialOrbit
    /\ result_files' = <<>>
    /\ level0files' = level0files

\* initialise(): the working directory, the scene fields and the pending
\* files are emptied, the job registry is kept.
initialise ==
    /\ ninit' = ninit + 1
    /\ working_dir' = NoDir
    /\ starttime' = NoTime
    /\ endtime' = NoTime
    /\ satid' = "Unknown"
    /\ satellite' = "Unknown"
    /\ platform' = "Unknown"
    /\ orbit' = InitialOrbit
    /\ result_files' = <<>>
    /\ level0files' = <<>>

\* aapp_proc.satid.startswith('metop')
startswith_metop(sid) == sid \in {"metop01", "metop02", "metop03"}

\* create_subdirname: '%.5d' % orbnum raises TypeError unless orbnum is a number.
create_subdirname_raises(orbnum) == orbnum.kind # "int"

\* move_lvl1dir: the orbit is read from the sub-directory name when there are
\* level-1 files and the orbit is '00000' or None.
move_lvl1dir_orbit(files, orbnum) ==
    IF files # <<>> /\ (orbnum = InitialOrbit \/ orbnum.kind = "None")
    THEN SubdirOrbit
    ELSE orbnum

\* create_subdirname: the sub-directory of a Metop pass.
create_subdirname(obstime, sid, orbnum) == <<sid, obstime, orbnum.val>>

\* pack_aapplvl1_files: the files that are left out.
not_considered == {"dcsn", "msun"}

\* pack_aapplvl1_files: name_converter.get(in_name, in_name).
name_converter(in_name) ==
    CASE in_name = "avhr" -> "avhrr/3"
      [] in_name = "aman" -> "amsu-a"
      [] in_name = "hrsn" -> "hirs/4"
      [] in_name = "msun" -> "msu"
      [] OTHER -> in_name

\* int(self.satnum) of a Metop satellite: '01' for metop01 and so on.
metop_satnum(sid) ==
    CASE sid = "metop01" -> 1
      [] sid = "metop02" -> 2
      [] OTHER -> 3

\* pack_aapplvl1_files: the sensor, the first part of the new file name and
\* the level of a file.
pack_entry(fname, satnum) ==
    LET in_name == fname[1]
        ext == fname[2]
        instr == IF in_name = "ambn"
                 THEN (IF satnum <= 17 THEN "amsub" ELSE "mhs")
                 ELSE IF in_name = "hrpt" THEN "avhrr/3"
                 ELSE name_converter(in_name)
        firstname == IF in_name = "hrpt" THEN <<"hrpt">> ELSE <<instr, ext>>
        level == IF in_name = "hrpt" THEN "1b"
                 ELSE IF ext = "l1b" THEN "1b"
                 ELSE IF ext = "l1c" THEN "1c" ELSE "1d"
    IN  [sensor |-> instr, firstname |-> firstname, level |-> level]

\* The files pack_aapplvl1_files copies.
packed(aappfiles) ==
    {i \in 1 .. Len(aappfiles) : aappfiles[i][2][1] \notin not_considered}

\* pack_aapplvl1_files: the new file name has the '/' of the sensor name in
\* it ('avhrr/3l1b_...'), which names a directory that nothing makes, and
\* shutil.copy raises IOError.
pack_raises(aappfiles, satnum) ==
    \E i \in packed(aappfiles) :
        LET e == pack_entry(aappfiles[i][2], satnum)
        IN  Len(e.firstname) = 2 /\ e.firstname[1] \in {"avhrr/3", "hirs/4"}

\* pack_aapplvl1_files: the dict from the new file names to sensor and level.
pack_aapplvl1_files(aappfiles, subdir, satnum) ==
    LET newfilename(i) ==
            <<subdir, pack_entry(aappfiles[i][2], satnum).firstname,
              aappfiles[i][2][2]>>
        names == {newfilename(i) : i \in packed(aappfiles)}
        of(n) == CHOOSE i \in packed(aappfiles) : newfilename(i) = n
    IN  [n \in names |->
            [sensor |-> pack_entry(aappfiles[of(n)][2], satnum).sensor,
             level |-> pack_entry(aappfiles[of(n)][2], satnum).level]]

\* The sub-directory of a NOAA pass is not in the output root.
Absent == [exists |-> FALSE, files |-> {}]

\* What the output root may hold under the name of the sub-directory of a
\* NOAA pass before move_lvl1dir: nothing, or the files of an earlier run.
Destinations ==
    {Absent,
     [exists |-> TRUE,
      files |-> {<<hrpt, "old.l1b">>, <<amsual1b, "old.l1b">>}]}

\* mstr[-2:]: the last two characters, all of them when there are fewer.
last_two(mstr) ==
    SubSeq(mstr, IF Len(mstr) > 2 THEN Len(mstr) - 1 ELSE 1, Len(mstr))

\* mstr[0:-3]: all characters but the last three, none when there are fewer.
but_last_three(mstr) == SubSeq(mstr, 1, Len(mstr) - 3)

\* move_lvl1dir: level and sensor from the first part of a file name: '1b'
\* and 'avhrr/3' for 'hrpt', else its last two characters and what stands
\* before its last three.
sensor_and_level(mstr) ==
    IF mstr = hrpt
    THEN [level |-> <<"1", "b">>,
          sensor |-> <<"a", "v", "h", "r", "r", "/", "3">>]
    ELSE [level |-> last_two(mstr), sensor |-> but_last_three(mstr)]

\* move_lvl1dir: the sub-directory of the first file is moved to the output
\* root unless it is there already (shutil.Error, a warning), and the dict is
\* made from the files that the output root then holds under its name.
move_lvl1dir(files, dest) ==
    IF files = <<>>
    THEN <<>>
    ELSE LET path == files[1][1]
             moved == {files[i][2] : i \in {j \in 1 .. Len(files) : files[j][1] = path}}
             filenames == IF dest.exists THEN dest.files ELSE moved
         IN  [n \in {<<"lvl1_home", path, f>> : f \in filenames} |->
                 sensor_and_level(n[3][1])]

\* publish_level1 sends nothing.
NoSend == {}

\* publish_level1: the messages it sends, one for every key of the dict.
publish_level1(files, sat, orbnum, start_t, end_t) ==
    {[filename |-> key,
      sensor |-> files[key].sensor,
      platform_name |-> sat,
      orbit_number |-> orbnum,
      format |-> "AAPP-HRPT",
      type |-> "Binary",
      data_processing_level |-> files[key].level,
      start_time |-> start_t,
      end_time |-> end_t] : key \in DOMAIN files}

\* aapp_rolling_runner after the break: the sub-directory is named and the
\* files are packed (Metop) or the sub-directory is moved (NOAA), and the
\* level-1 files are published.
PostDispatch ==
    /\ pc = "harvest"
    /\ IF startswith_metop(satid)
       THEN IF create_subdirname_raises(orbit)
            THEN /\ outcome' = "TypeError"
                 /\ pc' = "crashed"
                 /\ UNCHANGED <<orbit, to_send>>
            ELSE IF pack_raises(result_files, metop_satnum(satid))
            THEN /\ outcome' = "IOError"
                 /\ pc' = "crashed"
                 /\ UNCHANGED <<orbit, to_send>>
            ELSE /\ to_send' = publish_level1(
                                   pack_aapplvl1_files(
                                       result_files,
                                       create_subdirname(starttime, satid, orbit),
                                       metop_satnum(satid)),
                                   satellite, orbit, starttime, endtime)
                 /\ pc' = "cleanup"
                 /\ UNCHANGED <<orbit, outcome>>
       ELSE /\ orbit' = move_lvl1dir_orbit(result_files, orbit)
            /\ \E dest \in Destinations :
                   to_send' = publish_level1(move_lvl1dir(result_files, dest),
                                             satellite, orbit', starttime, endtime)
            /\ pc' = "cleanup"
            /\ UNCHANGED outcome
    /\ UNCHANGED <<job_register, level0files, starttime, endtime, satid,
                   satellite, platform, result_files, timers, released, dirvars,
                   ninit, nlaunch, launched, nrunning, returncode, msg, feed,
                   sidevars>>

\* cleanup_aapp_workdir(): shutil.rmtree removes the working directory.
cleanup_aapp_workdir(dirs, wd) == dirs \ {wd}

\* The working directory is removed when the processor has one, and the loop
\* starts over with initialise().
Cleanup ==
    /\ pc = "cleanup"
    /\ workdirs' = IF working_dir # NoDir
                   THEN cleanup_aapp_workdir(workdirs, working_dir)
                   ELSE workdirs
    /\ UNCHANGED <<ndirs, dispatch_dirs>>
    /\ initialise
    /\ to_send' = NoSend
    /\ pc' = "recv"
    /\ UNCHANGED <<job_register, timers, released, nlaunch, launched, nrunning,
                   returncode, outcome, msg, feed, sidevars>>

\* A cooldown timer fires: reset_job_registry runs in the timer's thread.
TimerFires(i) ==
    /\ i \in 1 .. Len(timers)
    /\ job_register' = reset_job_registry(job_register, timers[i].key, timers[i].times)
    /\ released' = IF reset_removes(job_register, timers[i].key, timers[i].times)
                   THEN released \cup {<<timers[i].key, timers[i].times>>}
                   ELSE released
    /\ timers' = RemoveAt(timers, i)
    /\ UNCHANGED <<level0files, scenevars, result_files, dirvars, ninit, nlaunch, launched,
                   nrunning, returncode, to_send, outcome, pc, msg, feed,
                   sidevars>>

Receive == \E m \in feed : run(m)

Cooldown == \E i \in 1 .. Len(timers) : TimerFires(i)

\* The processor after __init__ and the first initialise().
InitProc ==
    /\ job_register = <<>>
    /\ level0files = <<>>
    /\ starttime = NoTime
    /\ endtime = NoTime
    /\ satid = "Unknown"
    /\ satellite = "Unknown"
    /\ platform = "Unknown"
    /\ orbit = InitialOrbit
    /\ result_files = <<>>
    /\ timers = <<>>
    /\ released = {}
    /\ working_dir = NoDir
    /\ workdirs = {}
    /\ ndirs = 0
    /\ dispatch_dirs = <<>>
    /\ ninit = 0
    /\ nlaunch = 0
    /\ launched = <<>>
    /\ nrunning = 0
    /\ returncode = NoCode
    /\ to_send = NoSend
    /\ outcome = "none"
    /\ pc = "recv"
    /\ msg = NoMsg

\* No call of overlapping_timeinterval on its own.
IdleOverlap == ot_args = <<>> /\ ot_result = <<>>

\* No call of reset_job_registry on its own.
IdleReset == rj_args = <<>> /\ rj_result = <<>>

\* No output drain on its own.
IdleDrain ==
    /\ script = <<>>
    /\ child = <<>>
    /\ pipes = [stdout |-> 0, stderr |-> 0]
    /\ lpc = "none"

\* No registry scan with a timer.
IdleScan ==
    /\ sc_register = <<>>
    /\ sc_cand = <<>>
    /\ sc_idx = 0
    /\ sc_pc = "none"
    /\ sc_timer = <<>>

IdleWriter ==
    /\ dw_queue = <<>>
    /\ dw_unfinished = 0
    /\ dw_loop = FALSE
    /\ dw_pc = "none"
    /\ dw_job = 0
    /\ dw_done = <<>>
    /\ dp_pc = "none"
    /\ dp_queued = <<>>
    /\ dp_njobs = 0
    /\ td_loop = FALSE

\* No relocation on its own.
IdleRelocate == rl_args = <<>> /\ rl_result = <<>>

Init ==
    /\ InitProc
    /\ feed \in Feeds
    /\ IdleOverlap
    /\ IdleReset
    /\ IdleDrain
    /\ IdleRelocate
    /\ IdleScan
    /\ IdleWriter

Next ==
    \/ Receive
    \/ SubprocessExit
    \/ RunReturns
    \/ PostDispatch
    \/ Cleanup
    \/ Cooldown

Spec == Init /\ [][Next]_vars

\* The loop with its timers as threads of their own (threading.Timer, never
\* cancelled, not daemon threads): a timer that was started does fire,
\* whatever the main thread does.  The feeds are those with NOAA passes with
\* and without end_time and with Metop passes with and without orbit_number.
InitCooldown ==
    /\ InitProc
    /\ feed \in {FeedSkip, FeedNoEnd, FeedNoOrbit}
    /\ IdleOverlap
    /\ IdleReset
    /\ IdleDrain
    /\ IdleRelocate
    /\ IdleScan
    /\ IdleWriter

SpecCooldown == InitCooldown /\ [][Next]_vars /\ WF_vars(Cooldown)

\* ---------------------------------------- overlapping_timeinterval on its own
\* Every candidate window against every list of at most MaxLen windows.
WindowLists == UNION {[1 .. n -> Windows] : n \in 0 .. MaxLen}

InitOverlap ==
    /\ InitProc
    /\ feed = {}
    /\ ot_args \in Windows \X WindowLists
    /\ ot_result = <<>>
    /\ IdleReset
    /\ IdleDrain
    /\ IdleRelocate
    /\ IdleScan
    /\ IdleWriter

CallOverlap ==
    /\ ot_result = <<>>
    /\ ot_result' = <<overlapping_timeinterval(ot_args[1], ot_args[2])>>
    /\ UNCHANGED <<procvars, relocvars, scanvars, writervars, ot_args, rj_args, rj_result, script, child, pipes, lpc>>

SpecOverlap == InitOverlap /\ [][CallOverlap]_vars

\* ---------------------------------------------- reset_job_registry on its own
\* The registries: no list for the key, or any list of at most MaxLen windows.
Registries == {<<>>} \cup {("noaa19" :> l) : l \in WindowLists}

\* Every registry, the key that may be in it or another one, every window.
InitReset ==
    /\ InitProc
    /\ feed = {}
    /\ IdleOverlap
    /\ rj_args \in Registries \X {"noaa19", "metop01"} \X Windows
    /\ rj_result = <<>>
    /\ IdleDrain
    /\ IdleRelocate
    /\ IdleScan
    /\ IdleWriter

CallReset ==
    /\ rj_result = <<>>
    /\ rj_result' =
           <<[registry |-> reset_job_registry(rj_args[1], rj_args[2], rj_args[3]),
              raised |-> reset_raises(rj_args[1], rj_args[2], rj_args[3]),
              warned |-> reset_warns(rj_args[1], rj_args[2], rj_args[3])]>>
    /\ UNCHANGED <<procvars, relocvars, scanvars, writervars, ot_args, ot_result, rj_args, script, child, pipes, lpc>>

SpecReset == InitReset /\ [][CallReset]_vars

\* ------------------------------------------------- the output drain on its own
\* run between Popen and the end of communicate(), with the subprocess and its
\* two pipes.  The subprocess writes its lines in the order of its script, a
\* write to a full pipe blocks it, and it exits after its last write.
Streams == {"stdout", "stderr"}

Scripts == UNION {[1 .. n -> Streams] : n \in 0 .. MaxWrites}

\* nonblock_read: a line when the pipe holds one, '' when it is empty or at
\* its end (the IOError of the empty pipe is swallowed).
nonblock_read(held) == IF held > 0 THEN "line" ELSE ""

\* communicate() reading stdout to its end before it looks at stderr.
communicate_reads_stdout_first ==
    IF pipes.stdout > 0 \/ child # <<>> THEN {"stdout"} ELSE {"stderr"}

\* communicate(): the streams it reads from while it waits, both at once.
communicate_reads == {"stdout", "stderr"}

InitDrain ==
    /\ InitProc
    /\ feed = {}
    /\ IdleOverlap
    /\ IdleReset
    /\ script \in Scripts
    /\ child = script
    /\ pipes = [stdout |-> 0, stderr |-> 0]
    /\ lpc = "stderr"
    /\ IdleRelocate
    /\ IdleScan
    /\ IdleWriter

\* The subprocess writes its next line, unless the pipe is full.
ChildWrites ==
    /\ child # <<>>
    /\ pipes[Head(child)] < PipeCap
    /\ pipes' = [pipes EXCEPT ![Head(child)] = @ + 1]
    /\ child' = Tail(child)
    /\ UNCHANGED <<procvars, relocvars, scanvars, writervars, ot_args, ot_result, rj_args, rj_result, script, lpc>>

\* The first loop: stderr is read line by line until a read yields nothing.
DrainStderr ==
    /\ lpc = "stderr"
    /\ IF nonblock_read(pipes.stderr) # ""
       THEN pipes' = [pipes EXCEPT !.stderr = @ - 1] /\ lpc' = lpc
       ELSE lpc' = "stdout" /\ pipes' = pipes
    /\ UNCHANGED <<procvars, relocvars, scanvars, writervars, ot_args, ot_result, rj_args, rj_result, script, child>>

\* The second loop: the same for stdout.
DrainStdout ==
    /\ lpc = "stdout"
    /\ IF nonblock_read(pipes.stdout) # ""
       THEN pipes' = [pipes EXCEPT !.stdout = @ - 1] /\ lpc' = lpc
       ELSE lpc' = "communicate" /\ pipes' = pipes
    /\ UNCHANGED <<procvars, relocvars, scanvars, writervars, ot_args, ot_result, rj_args, rj_result, script, child>>

\* communicate(): it reads what the streams it watches hold, and returns when
\* the subprocess has exited and both pipes are at their end.
Communicate ==
    /\ lpc = "communicate"
    /\ \/ \E stream \in communicate_reads :
             /\ pipes[stream] > 0
             /\ pipes' = [pipes EXCEPT ![stream] = @ - 1]
             /\ lpc' = lpc
       \/ /\ child = <<>>
          /\ \A stream \in Streams : pipes[stream] = 0
          /\ lpc' = "returned"
          /\ pipes' = pipes
    /\ UNCHANGED <<procvars, relocvars, scanvars, writervars, ot_args, ot_result, rj_args, rj_result, script, child>>

Launcher == DrainStderr \/ DrainStdout \/ Communicate

NextDrain == ChildWrites \/ DrainStderr \/ DrainStdout \/ Communicate

\* Both processes are scheduled by the operating system: neither waits for
\* ever while it can take a step.
SpecDrain ==
    /\ InitDrain
    /\ [][NextDrain]_vars
    /\ WF_vars(Launcher)
    /\ WF_vars(ChildWrites)

\* ---------------------------------------------------- the relocation on its own
\* pack_aapplvl1_files (Metop) and move_lvl1dir (NOAA) with the output root:
\* whether the sub-directory of the pass is there, and its files with what
\* they hold, "old" for the data of an earlier run and "new" for the data of
\* this one.
ThisSubdir == create_subdirname(0, "metop01", IntOrbit(12345))

\* The level-1 files of the pass: what get_aapp_lvl1_files may find, and two
\* lists with an amsu-a file.
HarvestLists(platform_name) ==
    ResultLists(platform_name)
    \cup (IF platform_name \in SUPPORTED_METOP_SATELLITES
          THEN {<< <<"wd", <<"aman", "l1b">> >> >>,
                << <<"wd", <<"hrpt", "l1b">> >>, <<"wd", <<"aman", "l1b">> >> >>}
          ELSE {<< <<"subdir", <<hrpt, "new.l1b">> >>,
                   <<"subdir", <<amsual1b, "new.l1b">> >> >>,
                << <<"subdir", <<hrpt, "new.l1b">> >>,
                   <<"subdir", <<log, "new.txt">> >> >>})

\* The names the files of the sub-directory may have in the output root.
DestNames(platform_name) ==
    IF platform_name \in SUPPORTED_METOP_SATELLITES
    THEN {<<ThisSubdir, <<"hrpt">>, "l1b">>, <<ThisSubdir, <<"amsu-a", "l1b">>, "l1b">>}
    ELSE {<<hrpt, "new.l1b">>, <<amsual1b, "new.l1b">>}

\* The states of the output root: no sub-directory, or one with some files.
OutputRoots(platform_name) ==
    {[exists |-> FALSE, files |-> <<>>]}
    \cup {[exists |-> TRUE, files |-> f] :
             f \in UNION {[names -> {"old", "new"}] :
                            names \in SUBSET DestNames(platform_name)}}

\* pack_aapplvl1_files: the files it has gone through before shutil.copy
\* raises, all the files when it does not.
copied(aappfiles, satnum) ==
    SubSeq(aappfiles, 1,
           CHOOSE n \in 0 .. Len(aappfiles) :
               /\ ~pack_raises(SubSeq(aappfiles, 1, n), satnum)
               /\ n < Len(aappfiles) => pack_raises(SubSeq(aappfiles, 1, n + 1), satnum))

\* pack_aapplvl1_files on the output root: os.mkdir unless the sub-directory
\* is there, then shutil.copy of every packed file onto its new name, whether
\* a file of that name is there or not.
pack_to_root(root, aappfiles, subdir, satnum) ==
    LET new == DOMAIN pack_aapplvl1_files(copied(aappfiles, satnum), subdir, satnum)
    IN  [root |-> [exists |-> TRUE,
                   files |-> [n \in DOMAIN root.files \cup new |->
                                 IF n \in new THEN "new" ELSE root.files[n]]],
         raised |-> IF pack_raises(aappfiles, satnum) THEN "IOError" ELSE "none"]

\* move_lvl1dir on the output root: nothing without files; shutil.move raises
\* shutil.Error, which is caught, when the sub-directory is there; else the
\* sub-directory of the first file is moved with its files.
move_to_root(root, files) ==
    IF files = <<>> \/ root.exists
    THEN [root |-> root, raised |-> "none"]
    ELSE LET path == files[1][1]
             moved == {files[i][2] : i \in {j \in 1 .. Len(files) : files[j][1] = path}}
         IN  [root |-> [exists |-> TRUE, files |-> [n \in moved |-> "new"]],
              raised |-> "none"]

\* The relocation step of the loop for a pass of the platform.
relocate(platform_name, root, files) ==
    IF platform_name \in SUPPORTED_METOP_SATELLITES
    THEN pack_to_root(root, files, ThisSubdir, metop_satnum(SATELLITE_NAME(platform_name)))
    ELSE move_to_root(root, files)

InitRelocate ==
    /\ InitProc
    /\ feed = {}
    /\ IdleOverlap
    /\ IdleReset
    /\ IdleDrain
    /\ IdleScan
    /\ IdleWriter
    /\ \E p \in {"Metop-B", "NOAA-19"} :
           rl_args \in {[platform_name |-> p, root |-> r, files |-> f] :
                           r \in OutputRoots(p), f \in HarvestLists(p)}
    /\ rl_result = <<>>

\* The dict of level-1 files that the relocation step hands to the loop,
\* none when it raises.
level1_files(platform_name, root, files) ==
    IF platform_name \in SUPPORTED_METOP_SATELLITES
    THEN IF pack_raises(files, metop_satnum(SATELLITE_NAME(platform_name)))
         THEN <<>>
         ELSE pack_aapplvl1_files(files, ThisSubdir,
                                  metop_satnum(SATELLITE_NAME(platform_name)))
    ELSE move_lvl1dir(files, [exists |-> root.exists, files |-> DOMAIN root.files])

\* The relocation step is run once, and once more on what it left.
CallRelocate ==
    /\ rl_result = <<>>
    /\ LET once == relocate(rl_args.platform_name, rl_args.root, rl_args.files)
           twice == relocate(rl_args.platform_name, once.root, rl_args.files)
       IN  rl_result' = <<[once |-> once, twice |-> twice,
                           level1_files |-> level1_files(rl_args.platform_name,
                                                         rl_args.root, rl_args.files)]>>
    /\ UNCHANGED <<procvars, scanvars, writervars, rl_args, ot_args, ot_result, rj_args, rj_result,
                   script, child, pipes, lpc>>

SpecRelocate == InitRelocate /\ [][CallRelocate]_vars

\* ------------------------------------------------ the registry scan with a timer
\* The registry test of run for a scene of noaa19 while the timer of one of
\* the locked intervals fires: the for loop of overlapping_timeinterval takes
\* the items of the list one by one in the main thread, reset_job_registry
\* removes an item of the same list object in the timer thread, and the
\* threads may be switched between any two items.
InitScan ==
    /\ InitProc
    /\ feed = {}
    /\ IdleOverlap
    /\ IdleReset
    /\ IdleDrain
    /\ IdleRelocate
    /\ IdleWriter
    /\ \E l \in WindowLists \ {<<>>} :
           /\ sc_register = ("noaa19" :> l)
           /\ sc_timer \in {<<>>} \cup {<<w>> : w \in Range(l)}
    /\ sc_cand \in Windows
    /\ sc_idx = 0
    /\ sc_pc = "scan"

\* next() of the list iterator and the test of the item: the item after
\* those taken so far, the end of the loop when the list has no more.
ScanNext ==
    /\ sc_pc = "scan"
    /\ IF sc_idx < Len(sc_register["noaa19"])
       THEN /\ sc_idx' = sc_idx + 1
            /\ sc_pc' = IF overlapping_timeinterval(
                               sc_cand, <<sc_register["noaa19"][sc_idx + 1]>>) # NoMatch
                        THEN "overlap"
                        ELSE "scan"
       ELSE /\ sc_pc' = "no overlap"
            /\ UNCHANGED sc_idx
    /\ UNCHANGED <<procvars, relocvars, writervars, sc_register, sc_cand, sc_timer, ot_args,
                   ot_result, rj_args, rj_result, script, child, pipes, lpc>>

\* The timer fires: reset_job_registry on the registry.
ScanTimerFires ==
    /\ sc_timer # <<>>
    /\ sc_register' = reset_job_registry(sc_register, "noaa19", sc_timer[1])
    /\ sc_timer' = <<>>
    /\ UNCHANGED <<procvars, relocvars, writervars, sc_cand, sc_idx, sc_pc, ot_args,
                   ot_result, rj_args, rj_result, script, child, pipes, lpc>>

NextScan == ScanNext \/ ScanTimerFires

SpecScan == InitScan /\ [][NextScan]_vars

\* ------------------------------------------------ the writer thread on its own
\* src/trollduction/trollduction.py: DataProcessor.run puts its write jobs on
\* the queue of the DataWriter thread and waits in prod_queue.join();
\* DataWriter.run takes them one by one; Trollduction.cleanup stops the
\* writer.  A job is the number of its put, the first job being 1.

\* A join that does not wait.
join_returns_at_once(unfinished) == TRUE

\* Queue.join() returns when no task put is left without its task_done().
join_returns(unfinished) == unfinished = 0

\* DataProcessor.__init__ has made the writer and started its thread; no
\* message has come yet.
InitWriter ==
    /\ InitProc
    /\ feed = {}
    /\ IdleOverlap
    /\ IdleReset
    /\ IdleDrain
    /\ IdleRelocate
    /\ IdleScan
    /\ dw_queue = <<>>
    /\ dw_unfinished = 0
    /\ dw_loop = TRUE
    /\ dw_pc = "while"
    /\ dw_job = 0
    /\ dw_done = <<>>
    /\ dp_pc = "idle"
    /\ dp_queued = <<>>
    /\ dp_njobs = 0
    /\ td_loop = TRUE

\* Trollduction.run_single: while self._loop, a message comes and
\* data_processor.run is called with it.
RunSingle ==
    /\ dp_pc \in {"idle", "returned"}
    /\ IF td_loop
       THEN dp_pc' = "run"
       ELSE dp_pc' = "stopped"
    /\ dp_queued' = <<>>
    /\ UNCHANGED <<dw_queue, dw_unfinished, dw_loop, dw_pc, dw_job, dw_done,
                   dp_njobs, td_loop>>
    /\ UNCHANGED <<procvars, relocvars, scanvars, ot_args, ot_result, rj_args,
                   rj_result, script, child, pipes, lpc>>

\* DataWriter.write, called from DataProcessor.run and draw_images:
\* prod_queue.put of one job.
Write ==
    /\ dp_pc = "run"
    /\ dp_njobs < MaxJobs
    /\ dp_njobs' = dp_njobs + 1
    /\ dw_queue' = Append(dw_queue, dp_njobs + 1)
    /\ dw_unfinished' = dw_unfinished + 1
    /\ dp_queued' = Append(dp_queued, dp_njobs + 1)
    /\ UNCHANGED <<dw_loop, dw_pc, dw_job, dw_done, dp_pc, td_loop>>
    /\ UNCHANGED <<procvars, relocvars, scanvars, ot_args, ot_result, rj_args,
                   rj_result, script, child, pipes, lpc>>

\* DataProcessor.run has put its jobs and calls prod_queue.join().
WaitForWriter ==
    /\ dp_pc = "run"
    /\ dp_pc' = "join"
    /\ UNCHANGED <<dw_queue, dw_unfinished, dw_loop, dw_pc, dw_job, dw_done,
                   dp_queued, dp_njobs, td_loop>>
    /\ UNCHANGED <<procvars, relocvars, scanvars, ot_args, ot_result, rj_args,
                   rj_result, script, child, pipes, lpc>>

\* prod_queue.join() returns, and DataProcessor.run after it.
JoinReturns ==
    /\ dp_pc = "join"
    /\ join_returns(dw_unfinished)
    /\ dp_pc' = "returned"
    /\ UNCHANGED <<dw_queue, dw_unfinished, dw_loop, dw_pc, dw_job, dw_done,
                   dp_queued, dp_njobs, td_loop>>
    /\ UNCHANGED <<procvars, relocvars, scanvars, ot_args, ot_result, rj_args,
                   rj_result, script, child, pipes, lpc>>

\* Trollduction.cleanup, from stop or shutdown: its own loop flag and
\* writer.stop().
cleanup ==
    /\ td_loop
    /\ td_loop' = FALSE
    /\ dw_loop' = FALSE
    /\ UNCHANGED <<dw_queue, dw_unfinished, dw_pc, dw_job, dw_done, dp_pc,
                   dp_queued, dp_njobs>>
    /\ UNCHANGED <<procvars, relocvars, scanvars, ot_args, ot_result, rj_args,
                   rj_result, script, child, pipes, lpc>>

\* DataWriter.run: the test of while self._loop; the thread ends when the
\* flag is down.
WriterLoop ==
    /\ dw_pc = "while"
    /\ dw_pc' = IF dw_loop THEN "get" ELSE "ended"
    /\ UNCHANGED <<dw_queue, dw_unfinished, dw_loop, dw_job, dw_done, dp_pc,
                   dp_queued, dp_njobs, td_loop>>
    /\ UNCHANGED <<procvars, relocvars, scanvars, ot_args, ot_result, rj_args,
                   rj_result, script, child, pipes, lpc>>

\* DataWriter.run: prod_queue.get(True, 1) gives the oldest job, or raises
\* Queue.Empty after a second without one, which is passed over.
WriterGet ==
    /\ dw_pc = "get"
    /\ IF dw_queue # <<>>
       THEN /\ dw_job' = Head(dw_queue)
            /\ dw_queue' = Tail(dw_queue)
            /\ dw_pc' = "fun"
       ELSE /\ dw_pc' = "while"
            /\ UNCHANGED <<dw_job, dw_queue>>
    /\ UNCHANGED <<dw_unfinished, dw_loop, dw_done, dp_pc, dp_queued, dp_njobs,
                   td_loop>>
    /\ UNCHANGED <<procvars, relocvars, scanvars, ot_args, ot_result, rj_args,
                   rj_result, script, child, pipes, lpc>>

\* DataWriter.run: fun(*args, **kwargs).  The function returns, or it raises:
\* nothing in run catches what it raises, and the thread ends with it.
WriterFun ==
    /\ dw_pc = "fun"
    /\ \E raises \in BOOLEAN :
           IF raises
           THEN /\ dw_pc' = "raised"
                /\ UNCHANGED dw_done
           ELSE /\ dw_pc' = "task_done"
                /\ dw_done' = Append(dw_done, dw_job)
    /\ UNCHANGED <<dw_queue, dw_unfinished, dw_loop, dw_job, dp_pc, dp_queued,
                   dp_njobs, td_loop>>
    /\ UNCHANGED <<procvars, relocvars, scanvars, ot_args, ot_result, rj_args,
                   rj_result, script, child, pipes, lpc>>

\* DataWriter.run: prod_queue.task_done().
WriterTaskDone ==
    /\ dw_pc = "task_done"
    /\ dw_unfinished' = dw_unfinished - 1
    /\ dw_job' = 0
    /\ dw_pc' = "while"
    /\ UNCHANGED <<dw_queue, dw_loop, dw_done, dp_pc, dp_queued, dp_njobs,
                   td_loop>>
    /\ UNCHANGED <<procvars, relocvars, scanvars, ot_args, ot_result, rj_args,
                   rj_result, script, child, pipes, lpc>>

NextWriter ==
    \/ RunSingle
    \/ Write
    \/ WaitForWriter
    \/ JoinReturns
    \/ cleanup
    \/ WriterLoop
    \/ WriterGet
    \/ WriterFun
    \/ WriterTaskDone

SpecWriter == InitWriter /\ [][NextWriter]_vars

\* ------------------------------------------------------------------ claims
\* The step is a call of run (PostDispatch starts at "harvest", a timer that
\* fires leaves one timer fewer).
IsRun == pc = "recv" /\ Len(timers') >= Len(timers)

\* The notification passes the filters of run: a file, a supported platform,
\* the configured server.
Accepted(m) ==
    /\ m # NoMsg
    /\ m.type = "file"
    /\ {"platform_name", "uri", "sensor", "start_time"} \subseteq DOMAIN m
    /\ m.platform_name \in SUPPORTED_NOAA_SATELLITES \cup SUPPORTED_METOP_SATELLITES
    /\ m.uri.netloc = SERVERNAME

\* The window run works with: the end is the guessed one when none came.
WindowOf(m) ==
    <<m.start_time,
      IF "end_time" \in DOMAIN m THEN m.end_time ELSE m.start_time + FOURTEEN_MINUTES>>

\* The intervals locked under the identity of notification m.
LockedFor(m) == Range(ListOf(job_register, SATELLITE_NAME(m.platform_name)))

\* x lies strictly inside window a.
Inside(x, a) == a[1] < x /\ x < a[2]

\* A start or an end of window b lies strictly inside window a.
EndpointInside(b, a) == Inside(b[1], a) \/ Inside(b[2], a)

NoDuplicates(s) == \A i, j \in 1 .. Len(s) : s[i] = s[j] => i = j

\* C1: a notification whose window overlaps a window still locked under its
\* identity (a start or end of either lies strictly inside the other) makes
\* run launch no subprocess.
C1_NoSecondDispatch ==
    [][(IsRun /\ Accepted(msg')
        /\ \E a \in LockedFor(msg') :
              EndpointInside(WindowOf(msg'), a) \/ EndpointInside(a, WindowOf(msg')))
       => nlaunch' = nlaunch]_vars

\* C2: a duplicate notification, with the very window that is still locked
\* under its identity, makes run launch no subprocess.
C2_DuplicateSuppressed ==
    [][(IsRun /\ Accepted(msg') /\ WindowOf(msg') \in LockedFor(msg'))
       => nlaunch' = nlaunch]_vars

C4_ContainingSuppressed ==
    [][(IsRun /\ Accepted(msg')
        /\ \E a \in LockedFor(msg') :
              WindowOf(msg')[1] < a[1] /\ a[2] < WindowOf(msg')[2])
       => outcome' = "overlap"]_vars

\* C5 as stated: once a cooldown callback has removed the interval of a pass,
\* a notification with that identity and window is not stopped by the
\* registry, and on a NOAA platform it is dispatched in that call.  Taken
\* where every interval locked under the identity has a start or end strictly
\* inside the window: such an interval was locked after the callback, since
\* the registry test stops it while the window itself is locked.
C5_AfterCooldownDispatch ==
    [][(IsRun /\ Accepted(msg')
        /\ <<SATELLITE_NAME(msg'.platform_name), WindowOf(msg')>> \in released
        /\ \A a \in LockedFor(msg') : EndpointInside(a, WindowOf(msg')))
       => /\ outcome' # "overlap"
          /\ msg'.platform_name \in SUPPORTED_NOAA_SATELLITES
                => nlaunch' = nlaunch + 1]_vars

\* C5 as amended: the same, provided no interval still locked under the
\* identity has the window's start or end strictly inside it.
C5_AfterCooldownDispatchUnlessLocked ==
    [][(IsRun /\ Accepted(msg')
        /\ <<SATELLITE_NAME(msg'.platform_name), WindowOf(msg')>> \in released
        /\ \A a \in LockedFor(msg') : ~EndpointInside(WindowOf(msg'), a))
       => /\ outcome' # "overlap"
          /\ msg'.platform_name \in SUPPORTED_NOAA_SATELLITES
                => (nlaunch' = nlaunch + 1 /\ pc' = "communicate")]_vars

\* C5's case: a NOAA pass whose interval a callback removed earlier has just
\* been dispatched again.
C5_Witness ==
    /\ pc = "harvest"
    /\ platform = "noaa"
    /\ nlaunch = 2
    /\ <<satid, <<starttime, endtime>> >> \in released

\* C6: no interval occurs twice in the registry list of an identity.
C6_NoIntervalTwice ==
    \A k \in DOMAIN job_register : NoDuplicates(job_register[k])

\* C7: the registry changes only when run dispatches, by the append of the
\* dispatched window under its identity, and when a cooldown callback
\* removes the interval it was armed for.
C7_RegistryFrame ==
    [][job_register' # job_register =>
          \/ /\ IsRun
             /\ nlaunch' = nlaunch + 1
             /\ job_register' =
                    AppendTo(job_register, satid', <<starttime', endtime'>>)
          \/ \E i \in 1 .. Len(timers) :
                /\ timers' = RemoveAt(timers, i)
                /\ timers[i].key \in DOMAIN job_register
                /\ timers[i].times \in Range(job_register[timers[i].key])
                /\ job_register' =
                       [job_register EXCEPT
                           ![timers[i].key] = RemoveFirst(@, timers[i].times)]]_vars

\* The pending files of the scene the processor is working on.
CurrentFiles == ListOf(level0files, scene_key(satid, starttime, endtime))

\* C8: a (path, sensor) pair is buffered at most once per scene key, a
\* re-delivered pair leaves the pending files as they were, and run launches
\* no Metop subprocess while the scene has fewer than 4 distinct pairs.
C8_SensorGate ==
    [][IsRun =>
          /\ \A k \in DOMAIN level0files' : NoDuplicates(level0files'[k])
          /\ (/\ Accepted(msg')
              /\ msg'.platform_name \in SUPPORTED_METOP_SATELLITES
              /\ <<msg'.uri.path, METOP_SENSOR(msg'.sensor)>> \in
                     Range(ListOf(level0files,
                                  scene_key(SATELLITE_NAME(msg'.platform_name),
                                            WindowOf(msg')[1], WindowOf(msg')[2]))))
                => level0files' = level0files
          /\ (nlaunch' # nlaunch /\ platform' = "metop")
                => Cardinality(Range(CurrentFiles')) >= 4]_vars

\* C8's case: the file buffered first was delivered again while the scene
\* waits with three files.
C8_Witness ==
    /\ outcome = "wait"
    /\ Len(CurrentFiles) = 3
    /\ CurrentFiles[1] = <<msg.uri.path, METOP_SENSOR(msg.sensor)>>

\* The sensors of the pending files of the current scene.
CurrentSensors == {f[2] : f \in Range(CurrentFiles)}

\* C9: a Metop scene gets past the gate (READY), and is launched, only with
\* a file for each of avhrr, amsua, mhs and hirs among its pending files.
C9_ReadyOnlyWithAllRoles ==
    (platform = "metop" /\ outcome \in {"mismatch", "KeyError", "dispatched"})
        => {"avhrr", "amsua", "mhs", "hirs"} \subseteq CurrentSensors

\* The file of the given sensor among the files, when there is just one.
FileOf(files, instr) == basename((CHOOSE f \in Range(files) : f[2] = instr)[1])

\* C10: the notification that completes a scene of one avhrr, one amsua, one
\* mhs and one hirs file launches the Metop command, with each file bound to
\* the flag of its sensor whatever the order of arrival; the notifications
\* before it launch nothing.
C10_AnyOrderOneDispatch ==
    [][(IsRun /\ platform' = "metop") =>
          /\ (/\ CurrentFiles' # ListOf(level0files,
                                        scene_key(satid', starttime', endtime'))
              /\ Len(CurrentFiles') = 4
              /\ CurrentSensors' = {"avhrr", "amsua", "mhs", "hirs"})
                => /\ nlaunch' = nlaunch + 1
                   /\ launched'.script = "METOP_RUN_SCRIPT"
                   /\ launched'.files =
                          [a |-> FileOf(CurrentFiles', "avhrr"),
                           u |-> FileOf(CurrentFiles', "amsua"),
                           m |-> FileOf(CurrentFiles', "mhs"),
                           h |-> FileOf(CurrentFiles', "hirs")]
          /\ Len(CurrentFiles') < 4 => nlaunch' = nlaunch]_vars

\* C10's case: a scene whose hirs file came first and whose avhrr file came
\* last has been launched.
C10_Witness ==
    /\ pc = "harvest"
    /\ platform = "metop"
    /\ Len(CurrentFiles) = 4
    /\ CurrentFiles[1][2] = "hirs"
    /\ CurrentFiles[4][2] = "avhrr"
    /\ launched.files.a = "AVHR_1"
    /\ launched.files.h = "HIRS_1"

\* C11: neither run nor the steps after a dispatch (naming the
\* sub-directory, packing or moving, publishing, cleanup) end in an
\* exception that nothing catches; control always comes back to the loop.
C11_NoUncaughtException == pc # "crashed"

\* The notification that came last carries no end_time.
NoEndTime == Accepted(msg) /\ "end_time" \notin DOMAIN msg

\* start_time + 14 minutes of the notification that came last.
GuessedEnd == msg.start_time + FOURTEEN_MINUTES

\* C12: a notification without end_time is processed with end_time =
\* start_time + 14 minutes: the registry test, the lock, the cooldown timer
\* and the published end_time all use that value; on a NOAA platform, when
\* its window overlaps no locked interval, the NOAA command is launched once.
C12_GuessedEndTime ==
    [][/\ (IsRun /\ NoEndTime')
            => /\ endtime' = GuessedEnd'
               /\ (outcome' = "overlap") <=>
                      \E a \in LockedFor(msg') :
                          EndpointInside(<<msg'.start_time, GuessedEnd'>>, a)
               /\ nlaunch' # nlaunch
                      => job_register' =
                             AppendTo(job_register,
                                      SATELLITE_NAME(msg'.platform_name),
                                      <<msg'.start_time, GuessedEnd'>>)
               /\ (/\ msg'.platform_name \in SUPPORTED_NOAA_SATELLITES
                   /\ \A a \in LockedFor(msg') :
                          a[2] <= msg'.start_time \/ GuessedEnd' <= a[1])
                      => /\ nlaunch' = nlaunch + 1
                         /\ launched' = noaa_cmd(msg'.uri.path)
       /\ (NoEndTime /\ pc = "communicate" /\ pc' = "harvest")
            => timers'[Len(timers')].times = <<msg.start_time, GuessedEnd>>
       /\ (NoEndTime /\ pc = "harvest")
            => \A sent \in to_send' :
                   /\ sent.start_time = msg.start_time
                   /\ sent.end_time = GuessedEnd]_vars

\* C12's case: a NOAA pass announced without end_time has been launched and
\* its level-1 file is published with the guessed end.
C12_Witness ==
    /\ NoEndTime
    /\ pc = "cleanup"
    /\ platform = "noaa"
    /\ to_send # NoSend
    /\ \A sent \in to_send : sent.end_time = GuessedEnd
    /\ nlaunch = 1

\* C13: a pass dispatched on a notification without orbit_number goes on
\* through the steps after the dispatch (naming the sub-directory, packing
\* or moving, publishing) to the cleanup, on both platform families.
C13_MissingOrbitContinues ==
    [][(/\ pc = "harvest"
        /\ pc' # "harvest"
        /\ Accepted(msg)
        /\ "orbit_number" \notin DOMAIN msg)
       => pc' = "cleanup"]_vars

\* C14: when a Metop scene gets past the gate with one of avhrr, amsua, mhs,
\* hirs missing among the sensors of its files, run returns to the loop with
\* nothing launched, no lock added and the pending files of the scene kept.
C14_MissingRoleAbortsCleanly ==
    [][(/\ IsRun
        /\ Accepted(msg')
        /\ msg'.platform_name \in SUPPORTED_METOP_SATELLITES
        /\ outcome' \notin {"overlap", "sensor", "wait"}
        /\ ~({"avhrr", "amsua", "mhs", "hirs"} \subseteq CurrentSensors'))
       => /\ pc' = "recv"
          /\ nlaunch' = nlaunch
          /\ job_register' = job_register
          /\ CurrentFiles' # <<>>]_vars

\* C16: a subprocess that exits with a non-zero status leaves run as a zero
\* status does (the lock is in the registry, the timer is armed, run reports
\* the dispatch), and the notification of that pass, delivered again while
\* its lock is still held, launches nothing.
C16_FailedPassNotRelaunched ==
    [][/\ (pc = "communicate" /\ pc' = "harvest" /\ returncode = 1)
            => /\ <<starttime, endtime>> \in Range(ListOf(job_register', satid))
               /\ timers' = Append(timers, [key |-> satid,
                                            times |-> <<starttime, endtime>>])
               /\ outcome' = "dispatched"
       /\ (/\ IsRun
           /\ outcome = "dispatched"
           /\ returncode = 1
           /\ msg' = msg
           /\ WindowOf(msg) \in LockedFor(msg))
            => nlaunch' = nlaunch]_vars

\* The notification is one run skips: none or not a file, a platform of
\* neither roster, another server, or a Metop sensor that is not recognised.
SkipCase(m) ==
    \/ m = NoMsg
    \/ m.type # "file"
    \/ /\ "platform_name" \in DOMAIN m
       /\ m.platform_name \notin
              {"NOAA-19", "NOAA-18", "NOAA-16", "NOAA-15",
               "Metop-A", "Metop-B", "Metop-C"}
    \/ /\ {"platform_name", "uri"} \subseteq DOMAIN m
       /\ m.uri.netloc # SERVERNAME
    \/ /\ Accepted(m)
       /\ m.platform_name \in {"Metop-A", "Metop-B", "Metop-C"}
       /\ m.sensor \notin {"avhrr/3", "amsu-a", "amsu-b", "hirs/4", "avhrr",
                            "amsua", "amsub", "mhs", "hirs"}

\* C18: a notification that is skipped (none or not a file, unsupported
\* platform, other server, unrecognised Metop sensor) launches nothing and
\* leaves the registry and the pending files as they were; run returns to
\* the loop, which takes the next notification.
C18_SkipFrame ==
    [][(IsRun /\ SkipCase(msg'))
       => /\ nlaunch' = nlaunch
          /\ nrunning' = nrunning
          /\ job_register' = job_register
          /\ level0files' = level0files
          /\ pc' = "recv"]_vars

\* C18's case: an unrecognised Metop sensor was skipped while files of the
\* scene were pending and a lock was held.
C18_Witness ==
    /\ outcome = "sensor"
    /\ msg.sensor = "iasi"
    /\ pc = "recv"
    /\ CurrentFiles # <<>>
    /\ \E k \in DOMAIN job_register : job_register[k] # <<>>

\* A file notification for a supported platform, from the configured server
\* when it says so, that lacks uri, sensor or start_time.
Malformed(m) ==
    /\ m # NoMsg
    /\ m.type = "file"
    /\ "platform_name" \in DOMAIN m
    /\ m.platform_name \in SUPPORTED_NOAA_SATELLITES \cup SUPPORTED_METOP_SATELLITES
    /\ ~({"uri", "sensor", "start_time"} \subseteq DOMAIN m)
    /\ "uri" \in DOMAIN m => m.uri.netloc = SERVERNAME

\* C19: a malformed file notification is skipped: run returns to the loop,
\* nothing is launched, the registry and the pending files stay as they were.
C19_MalformedSkipped ==
    [][(IsRun /\ Malformed(msg'))
       => /\ pc' = "recv"
          /\ nlaunch' = nlaunch
          /\ job_register' = job_register
          /\ level0files' = level0files]_vars

\* C20: at most one subprocess runs at a time; while it runs the loop is
\* inside run waiting for it, so that no notification is taken and nothing
\* is launched; after its exit the pass is harvested and published, the
\* processor is initialised again, and only then is a notification taken.
C20_OneSubprocess ==
    [][/\ nrunning' <= 1
       /\ nrunning' > 0 => pc' = "communicate"
       /\ (msg' # msg \/ nlaunch' # nlaunch) => (pc = "recv" /\ nrunning = 0)
       /\ (pc = "communicate" /\ pc' # pc) => (pc' = "harvest" /\ nrunning = 0)
       /\ (pc = "harvest" /\ pc' # pc) => pc' \in {"cleanup", "crashed"}
       /\ (pc = "cleanup" /\ pc' # pc)
            => (pc' = "recv" /\ level0files' = <<>> /\ starttime' = NoTime)]_vars

\* C20's case: a second subprocess runs, after the first pass was harvested.
C20_Witness ==
    /\ nrunning = 1
    /\ nlaunch = 2
    /\ pc = "communicate"

\* C15: reset_job_registry removes the first interval equal to the given
\* one under the key; when there is none, whatever else the registry holds,
\* it leaves the registry as it was and raises no error.
C15_UnlockAbsentIsNoop ==
    rj_result # <<>> =>
        LET reg == rj_args[1]
            key == rj_args[2]
            w == rj_args[3]
        IN  IF key \in DOMAIN reg /\ w \in Range(reg[key])
            THEN /\ rj_result[1].registry = [reg EXCEPT ![key] = RemoveFirst(@, w)]
                 /\ ~rj_result[1].raised
            ELSE /\ rj_result[1].registry = reg
                 /\ ~rj_result[1].raised

\* The lines the script writes to the stream.
Written(stream) == Cardinality({i \in 1 .. Len(script) : script[i] = stream})

\* C17: reading the output never deadlocks: as long as run has not come
\* back from communicate(), the subprocess can write or run can go on (the
\* subprocess is never stuck on a full pipe while run waits for something
\* else), and run does come back, whatever the subprocess writes to its two
\* streams and in whatever order.
C17_DrainNeverDeadlocks ==
    /\ [](lpc # "returned" => ENABLED NextDrain)
    /\ <>(lpc = "returned")

\* C17's case: run has come back from a subprocess that wrote more than a
\* pipe holds to each of its streams.
C17_Witness ==
    /\ lpc = "returned"
    /\ Written("stdout") > PipeCap
    /\ Written("stderr") > PipeCap

\* C21: every Popen call runs in a working directory that no earlier Popen
\* call ran in; at most one working directory exists at any time; while a
\* pass is run, harvested and published its working directory exists, and
\* when the loop is back at recv the directory of every pass is gone.
C21_WorkingDirectories ==
    /\ NoDuplicates(dispatch_dirs)
    /\ Cardinality(workdirs) <= 1
    /\ pc \in {"communicate", "harvest", "cleanup"}
         => /\ working_dir \in workdirs
            /\ working_dir = dispatch_dirs[Len(dispatch_dirs)]
    /\ pc = "recv" => \A i \in 1 .. Len(dispatch_dirs) : dispatch_dirs[i] \notin workdirs

\* C21's case: a second pass runs, in a directory of its own, after the
\* directory of the first pass was removed.
C21_Witness ==
    /\ pc = "communicate"
    /\ dispatch_dirs = <<1, 2>>
    /\ working_dir = 2
    /\ workdirs = {2}

\* C22: when the loop leaves the harvest of a dispatched pass it has sent
\* exactly one message for every file of result_files (none when there is
\* none), and every message has the platform name, the orbit number, the
\* start_time and the end_time of the notification that was dispatched, the
\* format 'AAPP-HRPT' and the type 'Binary'.
C22_OneMessagePerArtifact ==
    [][(pc = "harvest" /\ pc' # pc)
       => /\ pc' = "cleanup"
          /\ Cardinality(to_send') = Len(result_files)
          /\ \A sent \in to_send' :
                 /\ sent.platform_name = msg.platform_name
                 /\ sent.orbit_number = orbit_of(msg)
                 /\ sent.start_time = msg.start_time
                 /\ sent.end_time = WindowOf(msg)[2]
                 /\ sent.format = "AAPP-HRPT"
                 /\ sent.type = "Binary"]_vars

\* C23: when the sub-directory of the pass is already in the output root,
\* the relocation step raises no error, every file that was in the
\* sub-directory is still there and holds what it held, and a second run of
\* the step leaves the output root as the first run left it.
C23_RelocationNoop ==
    (rl_result # <<>> /\ rl_args.root.exists)
        => /\ rl_result[1].once.raised = "none"
           /\ rl_result[1].twice.raised = "none"
           /\ \A n \in DOMAIN rl_args.root.files :
                  /\ n \in DOMAIN rl_result[1].once.root.files
                  /\ rl_result[1].once.root.files[n] = rl_args.root.files[n]
           /\ rl_result[1].twice.root = rl_result[1].once.root

\* C24: the loop calls initialise() once after every pass, when the pass has
\* been published and its working directory removed, so that every Popen call
\* but the first comes after exactly one initialise() since the one before;
\* initialise() sets the working directory to None, the scene fields to their
\* start values and empties the result files and the pending files, and
\* leaves the job registry with all its intervals.
C24_Reinitialise ==
    [][/\ ninit' # ninit
           => /\ pc = "cleanup"
              /\ pc' = "recv"
              /\ ninit' = ninit + 1
              /\ working_dir' = NoDir
              /\ starttime' = NoTime
              /\ endtime' = NoTime
              /\ satid' = "Unknown"
              /\ satellite' = "Unknown"
              /\ platform' = "Unknown"
              /\ orbit' = InitialOrbit
              /\ result_files' = <<>>
              /\ level0files' = <<>>
              /\ job_register' = job_register
       /\ (pc = "cleanup" /\ pc' # pc) => ninit' = ninit + 1
       /\ nlaunch' # nlaunch => ninit = nlaunch]_vars

\* C24's case: the loop has initialised the processor after a Metop pass,
\* whose interval is still locked, and launches the next pass.
C24_Witness ==
    /\ ninit = 1
    /\ nlaunch = 2
    /\ \E k \in DOMAIN job_register : Len(job_register[k]) = 2
    /\ \E k \in DOMAIN level0files : Len(level0files[k]) = MinSensorFiles

\* C25: a timer is started only by a run call that has launched a subprocess,
\* when run goes on after communicate(), one timer for the call, with the
\* identity and the window that the call has appended to the registry; a
\* timer goes away only by firing, which calls reset_job_registry with its
\* identity and window on the registry; and every timer that was started
\* fires.
C25_OneTimerPerLaunch ==
    /\ [][/\ (pc = "communicate" /\ pc' # pc)
              => /\ Len(timers') = Len(timers) + 1
                 /\ SubSeq(timers', 1, Len(timers)) = timers
                 /\ timers'[Len(timers')] =
                        [key |-> SATELLITE_NAME(msg.platform_name),
                         times |-> WindowOf(msg)]
                 /\ timers'[Len(timers')].times
                        \in Range(ListOf(job_register, timers'[Len(timers')].key))
          /\ Len(timers') > Len(timers) => (pc = "communicate" /\ pc' = "harvest")
          /\ Len(timers') < Len(timers)
              => \E i \in 1 .. Len(timers) :
                     /\ timers' = RemoveAt(timers, i)
                     /\ job_register' = reset_job_registry(job_register, timers[i].key,
                                                           timers[i].times)
          /\ Len(timers') = Len(timers) => timers' = timers]_vars
    /\ \A n \in 1 .. MaxLaunches : (Len(timers) = n) ~> (Len(timers) < n)

\* C25's case: the timer of a pass has fired and removed the interval of the
\* pass while the timer of a later pass is still to fire.
C25_Witness ==
    /\ Len(timers) = 1
    /\ released # {}
    /\ nlaunch = 2
    /\ timers[1].times \in Range(ListOf(job_register, timers[1].key))

\* C26: a run call drops no pending file of a scene (the list of every scene
\* key is kept), and a receive timeout, where recv hands None to the loop,
\* makes the loop initialise the processor again, which empties the pending
\* files.
C26_TimeoutClearsPending ==
    [][/\ IsRun
           => \A k \in DOMAIN level0files :
                  /\ k \in DOMAIN level0files'
                  /\ SubSeq(level0files'[k], 1, Len(level0files[k])) = level0files[k]
       /\ (IsRun /\ msg' = NoMsg) => level0files' = <<>>]_vars

\* The number of times the window is in the list.
CountIn(list, w) == Cardinality({i \in 1 .. Len(list) : list[i] = w})

\* The number of timers that are still to fire for the identity and window.
TimersFor(key, w) ==
    Cardinality({i \in 1 .. Len(timers) : timers[i] = [key |-> key, times |-> w]})

\* C27: while the subprocess of a pass runs, run waits for it, the interval
\* of the pass is in the registry and its timer is not started: no timer that
\* is still to fire can take the interval of the running pass away; and from
\* the start of a timer until it fires the registry holds an interval for it.
C27_LockedUntilCallback ==
    /\ nrunning > 0 => pc = "communicate"
    /\ pc = "communicate"
         => CountIn(ListOf(job_register, registry_key(satid)), <<starttime, endtime>>)
                > TimersFor(registry_key(satid), <<starttime, endtime>>)
    /\ \A i \in 1 .. Len(timers) :
           CountIn(ListOf(job_register, timers[i].key), timers[i].times)
               >= TimersFor(timers[i].key, timers[i].times)

\* C27's case: the subprocess of a pass runs while the timer of an earlier
\* pass of the same identity and window is still to fire.
C27_Witness ==
    /\ nrunning = 1
    /\ TimersFor(registry_key(satid), <<starttime, endtime>>) = 1
    /\ CountIn(ListOf(job_register, registry_key(satid)), <<starttime, endtime>>) = 2

\* C28: a notification with a start or an end strictly inside an interval
\* locked under its identity is returned from the registry test: the pending
\* files of every scene key and the registry stay as they were and nothing
\* is launched, for a Metop notification as for a NOAA one.
C28_SuppressedBeforeAggregation ==
    [][(/\ IsRun
        /\ Accepted(msg')
        /\ \E a \in LockedFor(msg') : EndpointInside(WindowOf(msg'), a))
       => /\ level0files' = level0files
          /\ job_register' = job_register
          /\ nlaunch' = nlaunch
          /\ pc' = "recv"]_vars

\* C28's case: a Metop notification is stopped by the registry test while
\* files of a scene are pending.
C28_Witness ==
    /\ outcome = "overlap"
    /\ msg.platform_name \in SUPPORTED_METOP_SATELLITES
    /\ msg.sensor = "avhrr/3"
    /\ level0files # <<>>

\* C29: run stops a notification at the registry test only when an interval
\* locked under its own identity has its start or end strictly inside; a run
\* call changes the list of its own identity only, and a timer that fires
\* changes the list of its own identity only.
C29_IdentitiesIndependent ==
    [][/\ (IsRun /\ Accepted(msg'))
           => /\ outcome' = "overlap"
                    => \E a \in LockedFor(msg') : EndpointInside(WindowOf(msg'), a)
              /\ \A k \in DOMAIN job_register' \cup DOMAIN job_register :
                     k # SATELLITE_NAME(msg'.platform_name)
                         => /\ k \in DOMAIN job_register
                            /\ k \in DOMAIN job_register'
                            /\ job_register'[k] = job_register[k]
       /\ Len(timers') < Len(timers)
           => \E i \in 1 .. Len(timers) :
                  /\ timers' = RemoveAt(timers, i)
                  /\ \A k \in DOMAIN job_register' \cup DOMAIN job_register :
                         k # timers[i].key
                             => /\ k \in DOMAIN job_register
                                /\ k \in DOMAIN job_register'
                                /\ job_register'[k] = job_register[k]]_vars

\* C29's case: a pass is launched although the interval locked under another
\* identity has the end of its window strictly inside.
C29_Witness ==
    /\ pc = "communicate"
    /\ \E k \in DOMAIN job_register :
           /\ k # registry_key(satid)
           /\ \E i \in 1 .. Len(job_register[k]) :
                  EndpointInside(<<starttime, endtime>>, job_register[k][i])

\* The notifications of the feed that bring the file.
BroughtBy(path) == {m \in feed : Accepted(m) /\ m.uri.path = path}

\* C30: every pending file is in the list whose key is the identity, the
\* start and the end of the notification that brought it, and the command of
\* a Metop pass is made of files of the list of the dispatched notification's
\* own identity, start and end.
C30_ExactSceneKey ==
    /\ \A k \in DOMAIN level0files :
           \A i \in 1 .. Len(level0files[k]) :
               \A m \in BroughtBy(level0files[k][i][1]) :
                   k = <<SATELLITE_NAME(m.platform_name), WindowOf(m)[1], WindowOf(m)[2]>>
    /\ (pc = "communicate" /\ platform = "metop")
           => /\ <<satid, starttime, endtime>> \in DOMAIN level0files
              /\ \A flag \in DOMAIN launched.files :
                     \E f \in Range(level0files[<<satid, starttime, endtime>>]) :
                         launched.files[flag] = basename(f[1])

\* C30's case: a Metop pass is launched while a file of a later window that
\* overlaps its window is pending.
C30_Witness ==
    /\ pc = "communicate"
    /\ platform = "metop"
    /\ \E k \in DOMAIN level0files :
           /\ k # <<satid, starttime, endtime>>
           /\ k[1] = satid
           /\ EndpointInside(<<k[2], k[3]>>, <<starttime, endtime>>)

\* The first part of a file name is 'hrpt' or a sensor name, an 'l' and the
\* two characters of a level.
Recognised(mstr) ==
    \/ mstr = hrpt
    \/ Len(mstr) > 3 /\ mstr[Len(mstr) - 2] = "l"

\* C31: move_lvl1dir gives every file of the sub-directory whose name starts
\* with 'hrpt' the level '1b' and the sensor 'avhrr/3', every other file with
\* a recognised first part the level and sensor of that part, and leaves a
\* file with another first part out of its dict.
C31_PrefixClassification ==
    (rl_result # <<>> /\ rl_args.platform_name \in SUPPORTED_NOAA_SATELLITES)
        => \A n \in DOMAIN rl_result[1].level1_files :
               LET mstr == n[3][1]
                   entry == rl_result[1].level1_files[n]
               IN  /\ Recognised(mstr)
                   /\ mstr = hrpt
                          => /\ entry.level = <<"1", "b">>
                             /\ entry.sensor = <<"a", "v", "h", "r", "r", "/", "3">>
                   /\ mstr = amsual1b
                          => /\ entry.level = <<"1", "b">>
                             /\ entry.sensor = <<"a", "m", "s", "u", "a">>

\* C32: when the scan of the list has come to its end without a match, no
\* interval that is in the list then has the start or the end of the scene's
\* window strictly inside, whenever the timer has fired during the scan.
C32_ScanMissesNothing ==
    sc_pc = "no overlap"
        => \A i \in 1 .. Len(sc_register["noaa19"]) :
               ~EndpointInside(sc_cand, sc_register["noaa19"][i])

\* C33: every interval in the registry belongs to a pass whose subprocess
\* runs, with run waiting for it, or whose timer is still to fire: run never
\* adds an interval without starting the timer that removes it.
C33_EveryLockHasTimer ==
    \A k \in DOMAIN job_register :
        \A i \in 1 .. Len(job_register[k]) :
            \/ TimersFor(k, job_register[k][i]) > 0
            \/ /\ pc = "communicate"
               /\ registry_key(satid) = k
               /\ job_register[k][i] = <<starttime, endtime>>

\* C34: a Metop notification that passes the registry test, brings a sensor
\* the aggregator takes and leaves the pending list of its scene key with 4
\* files or more makes this run call launch the Metop command.
C34_ThresholdDispatches ==
    [][(/\ IsRun
        /\ Accepted(msg')
        /\ msg'.platform_name \in SUPPORTED_METOP_SATELLITES
        /\ \A a \in LockedFor(msg') : ~EndpointInside(WindowOf(msg'), a)
        /\ METOP_SENSOR(msg'.sensor) \in AcceptedSensors
        /\ Len(ListOf(level0files',
                      <<SATELLITE_NAME(msg'.platform_name),
                        WindowOf(msg')[1], WindowOf(msg')[2]>>)) >= MinSensorFiles)
       => /\ nlaunch' = nlaunch + 1
          /\ pc' = "communicate"]_vars

\* C35: the initialise() that follows a dispatched pass leaves no scene key
\* with pending files, whichever keys had files before, and the first file
\* that a run call buffers after it is alone in its list.
C35_DispatchEmptiesAllPending ==
    [][/\ (nlaunch > ninit /\ pc' = "recv")
           => /\ DOMAIN level0files' = {}
              /\ ninit' = nlaunch
       /\ (IsRun /\ DOMAIN level0files = {})
           => \A k \in DOMAIN level0files' : Len(level0files'[k]) = 1]_vars

\* C35's case: a Metop pass has been dispatched and published, and initialise()
\* is about to run, while a file of another scene key is pending.
C35_Witness ==
    /\ pc = "cleanup"
    /\ \E k \in DOMAIN level0files :
           /\ k # <<satid, starttime, endtime>>
           /\ level0files[k] # <<>>

\* The identity and window are locked in the registry.
Locked(key, w) == w \in Range(ListOf(job_register, key))

\* C36: a run call that returns True has launched nothing, started no timer
\* and left the registry as it was; a run call launches at most one
\* subprocess, and with it appends one interval, that of its scene, to the
\* list of its identity; the call that has launched is the one that returns
\* False, after it has started one timer, and no other call returns False.
C36_DispatchedIffLaunched ==
    [][/\ (IsRun /\ pc' = "recv")
           => /\ nlaunch' = nlaunch
              /\ nrunning' = nrunning
              /\ timers' = timers
              /\ job_register' = job_register
       /\ (IsRun /\ nlaunch' # nlaunch)
           => LET key == SATELLITE_NAME(msg'.platform_name)
              IN  /\ nlaunch' = nlaunch + 1
                  /\ nrunning' = nrunning + 1
                  /\ pc' = "communicate"
                  /\ timers' = timers
                  /\ ListOf(job_register', key)
                         = Append(ListOf(job_register, key), WindowOf(msg'))
                  /\ \A k \in DOMAIN job_register : k # key => job_register'[k] = job_register[k]
       /\ (pc = "communicate" /\ pc' # pc)
           => /\ pc' = "harvest"
              /\ outcome' = "dispatched"
              /\ Len(timers') = Len(timers) + 1
              /\ nlaunch' = nlaunch
              /\ job_register' = job_register
       /\ outcome' = "dispatched" => (outcome = "dispatched" \/ pc = "communicate")
       /\ pc' = "communicate" => (pc = "communicate" \/ nlaunch' = nlaunch + 1)]_vars

\* C36's case: a run call has returned False for a second pass, with the
\* interval of the pass in the registry and its timer started.
C36_Witness ==
    /\ pc = "harvest"
    /\ outcome = "dispatched"
    /\ nlaunch = 2
    /\ Locked(registry_key(satid), <<starttime, endtime>>)
    /\ TimersFor(registry_key(satid), <<starttime, endtime>>) >= 1

\* C37: when DataProcessor.run has returned, the function of every job the
\* call has put on the queue has returned in the writer thread; the writer
\* runs the jobs in the order of their put, one at a time: the jobs done are
\* the first jobs put, in that order, and the job it runs is the next one.
C37_ReturnsAfterAllJobs ==
    /\ dp_pc = "returned" => \A i \in 1 .. Len(dp_queued) : dp_queued[i] \in Range(dw_done)
    /\ \A i \in 1 .. Len(dw_done) : dw_done[i] = i
    /\ dw_pc = "fun" => dw_job = Len(dw_done) + 1

\* C37's case: a call that has put two jobs has returned.
C37_Witness ==
    /\ dp_pc = "returned"
    /\ Len(dp_queued) >= 2

\* C38: the wait for the writer always ends: DataProcessor.run is never in
\* prod_queue.join() with a job put and not done while the writer thread has
\* ended, by a function that raised or by stop().
C38_JoinAlwaysCompletes ==
    ~ /\ dp_pc = "join"
      /\ dw_unfinished > 0
      /\ dw_pc \in {"raised", "ended"}

====
